---- MODULE Spec2Model ----
(***************************************************************************)
(* Alert generator (edge function, src/unnamed/part_003), the alert store   *)
(* and the browser session that is notified of inserted alerts and marks    *)
(* alerts read (src/src/hooks/useNotifications.tsx,                         *)
(* src/src/components/layout/AppHeader.tsx).                                *)
(*                                                                          *)
(* Time is counted in hours: the code works in milliseconds, and every      *)
(* duration it uses (one day, seven days) is a whole number of hours.       *)
(* A table read or write is one atomic step of the store; every `await` of  *)
(* the handler is therefore one action, and the synchronous code that       *)
(* follows the await belongs to the same action.                            *)
(***************************************************************************)
EXTENDS Integers, Sequences, FiniteSets, TLC

VARIABLES now, kpis, kpiValues, actions, problems, alerts, nextId, gen, quiet, faults,
          session, channel, handled, cached, outcome

\* The state of one browser session: who is signed in and what the hook
\* knows (session), the insert events published to it and not yet delivered
\* (channel), the events its handler has processed with the notifications
\* shown for each (handled), the alert list held by the header (cached), and
\* what the last mark-read operation or event handler did (outcome).
client == <<session, channel, handled, cached, outcome>>

vars == <<now, kpis, kpiValues, actions, problems, alerts, nextId, gen, quiet, faults,
          session, channel, handled, cached, outcome>>

(***************************************************************************)
(* Bounds of the model                                                      *)
(***************************************************************************)
MaxReadings == 2        \* rows of kpi_values
MaxAlerts   == 3        \* rows ever inserted into smart_alerts
MaxTicks    == 1        \* clock advances
MaxStored   == 2        \* rows of smart_alerts present before a drawn run
MaxFaults   == 1        \* store calls of the generator that return an error
MaxRecorded == 1        \* rows of kpi_values in the interleaved specification
MaxEvents   == 2        \* rows inserted while a session is subscribed

(***************************************************************************)
(* Program constants                                                        *)
(***************************************************************************)
DAY           == 24     \* 1000 * 60 * 60 * 24 ms, in hours
RetentionDays == 7
OldAfterDays  == 3

KpiIds     == {"k1", "k2"}
ActionIds  == {"a1", "a2"}
ProblemIds == {"p1", "p2"}
Invs       == {1}

KpiStatus      == {"red", "orange", "green"}
KpiTrend       == {"up", "down"}
Priorities     == {"low", "medium", "high", "urgent"}
ActionStatus   == {"todo", "in_progress", "completed"}
ProblemSeverity == {"critical", "high", "medium"}
ProblemStatus  == {"open", "resolved"}
Roles          == {"admin", "manager", "team_leader", "operator", "none"}

NoRow == [absent |-> TRUE]

\* The clock at the start of a behaviour, and the UTC date it falls on.
Epoch    == 10 * DAY
EpochDay == Epoch \div DAY

(***************************************************************************)
(* Helpers                                                                  *)
(***************************************************************************)
RECURSIVE SeqOf(_)
\* The rows of a query result, as the array the client library returns.
\* No later step depends on the order of rows without ORDER BY (the
\* candidates are filtered and inserted as a batch), so one order is used.
SeqOf(S) ==
  IF S = {} THEN <<>>
  ELSE LET x == CHOOSE y \in S : TRUE IN
       <<x>> \o SeqOf(S \ {x})

SeqsUpTo(S, n) == UNION { [1..m -> S] : m \in 0..n }

(***************************************************************************)
(* Requests and responses                                                   *)
(***************************************************************************)
Callers ==
  [method : {"POST", "OPTIONS"}, hasAuthHeader : BOOLEAN, tokenValid : BOOLEAN,
   roleError : BOOLEAN, role : Roles]

AuthorizedCallers ==
  { c \in Callers : c.method = "POST" /\ c.hasAuthHeader /\ c.tokenValid
                    /\ ~c.roleError /\ c.role \in {"admin", "manager"} }

NoResponse == [status |-> 0, success |-> "none", error |-> "",
               totalChecked |-> -1, newAlertsCreated |-> -1, duplicatesSkipped |-> -1]

ErrorResponse(st, msg) == [NoResponse EXCEPT !.status = st, !.error = msg]

Preflight == [NoResponse EXCEPT !.status = 200]

\* line 309: the message of the caught value when it is an Error, a fixed
\* text otherwise.  Whether the error object returned by the store client is
\* an Error depends on the client library, so both are possible.
ErrorMessage(thrown) == IF thrown.isError THEN thrown.message ELSE "Unknown error"

Thrown(message) == { [isError |-> b, message |-> message] : b \in BOOLEAN }

FailureResponseSummary(msg) == [NoResponse EXCEPT !.status = 200, !.success = "true"]

FailureResponse(msg) ==
  [NoResponse EXCEPT !.status = 500, !.success = "false", !.error = msg]

SummaryAllNew(alertsToCreate, newAlerts) ==
  [NoResponse EXCEPT !.status = 200, !.success = "true",
     !.totalChecked = Len(alertsToCreate),
     !.newAlertsCreated = Len(alertsToCreate),
     !.duplicatesSkipped = 0]

Summary(alertsToCreate, newAlerts) ==
  [NoResponse EXCEPT !.status = 200, !.success = "true",
     !.totalChecked = Len(alertsToCreate),
     !.newAlertsCreated = Len(newAlerts),
     !.duplicatesSkipped = Len(alertsToCreate) - Len(newAlerts)]

IsAllowedRoleLoose(role) == role \in {"admin", "manager", "team_leader"}

IsAllowedRole(role) == role \in {"admin", "manager"}

(***************************************************************************)
(* Candidate alerts of the four passes                                      *)
(***************************************************************************)
AlertData(type, severity, id, kind) ==
  [type |-> type, severity |-> severity, related_id |-> id, related_type |-> kind]

RECURSIVE LatestByKpiLastWins(_, _)
LatestByKpiLastWins(values, latest) ==
  IF values = <<>> THEN latest
  ELSE LET value == Head(values) IN
       IF \E j \in 1..Len(latest) : latest[j].kpi_id = value.kpi_id
       THEN LatestByKpiLastWins(Tail(values),
              [j \in 1..Len(latest) |->
                 IF latest[j].kpi_id = value.kpi_id THEN value ELSE latest[j]])
       ELSE LatestByKpiLastWins(Tail(values), Append(latest, value))

RECURSIVE LatestByKpi(_, _)
\* The Map latestByKpi, as the sequence of its values in insertion order:
\* a reading is kept only when its kpi_id is not yet a key.
LatestByKpi(values, latest) ==
  IF values = <<>> THEN latest
  ELSE LET value == Head(values) IN
       IF \E j \in 1..Len(latest) : latest[j].kpi_id = value.kpi_id
       THEN LatestByKpi(Tail(values), latest)
       ELSE LatestByKpi(Tail(values), Append(latest, value))

KpiAlertsBoth(latestValue) ==
  (IF latestValue.status = "red"
     THEN <<AlertData("kpi_critical", "critical", latestValue.kpi_id, "kpi"),
            AlertData("kpi_warning", "high", latestValue.kpi_id, "kpi")>>
     ELSE <<>>)
  \o (IF latestValue.status = "orange"
     THEN <<AlertData("kpi_warning", "high", latestValue.kpi_id, "kpi")>>
     ELSE <<>>)

\* The three tests made on the latest reading of one KPI.
KpiAlerts(latestValue) ==
  (IF latestValue.status = "red"
     THEN <<AlertData("kpi_critical", "critical", latestValue.kpi_id, "kpi")>>
     ELSE <<>>)
  \o (IF latestValue.status = "orange"
     THEN <<AlertData("kpi_warning", "high", latestValue.kpi_id, "kpi")>>
     ELSE <<>>)
  \o (IF latestValue.trend = "down" /\ latestValue.status # "green"
     THEN <<AlertData("kpi_trend", "medium", latestValue.kpi_id, "kpi")>>
     ELSE <<>>)

RECURSIVE KpiPassOver(_, _)
\* The loop over latestByKpi; a reading whose joined kpi row is null is skipped.
KpiPassOver(latest, kpiRows) ==
  IF latest = <<>> THEN <<>>
  ELSE (IF Head(latest).kpi_id \in kpiRows THEN KpiAlerts(Head(latest)) ELSE <<>>)
       \o KpiPassOver(Tail(latest), kpiRows)

KpiPassAll(values, kpiRows) == KpiPassOver(values, kpiRows)

KpiPass(values, kpiRows) == KpiPassOver(LatestByKpi(values, <<>>), kpiRows)

\* .lt('due_date', today).neq('status', 'completed')
OverdueQuery(acts, today) ==
  { a \in DOMAIN acts : acts[a] # NoRow /\ acts[a].due_date < today
                        /\ acts[a].status # "completed" }

OverdueAlertFlat(acts, a) ==
  AlertData("action_overdue", "high", a, "action")

OverdueAlert(acts, a) ==
  LET isUrgent == acts[a].priority = "urgent" \/ acts[a].priority = "high" IN
  AlertData("action_overdue", IF isUrgent THEN "critical" ELSE "high", a, "action")

UrgentQueryAnyPriority(acts, today) ==
  { a \in DOMAIN acts : acts[a] # NoRow /\ acts[a].due_date = today
                        /\ acts[a].status # "completed" }

\* .eq('due_date', today).in('priority', ['urgent','high']).neq('status','completed')
UrgentQuery(acts, today) ==
  { a \in DOMAIN acts : acts[a] # NoRow /\ acts[a].due_date = today
                        /\ acts[a].priority \in {"urgent", "high"}
                        /\ acts[a].status # "completed" }

UrgentAlert(a) == AlertData("action_urgent", "high", a, "action")

\* .in('severity', ['critical','high']).neq('status', 'resolved')
ProblemsQuery(probs) ==
  { p \in DOMAIN probs : probs[p] # NoRow /\ probs[p].severity \in {"critical", "high"}
                         /\ probs[p].status # "resolved" }

\* Math.floor((Date.now() - createdDate.getTime()) / (1000 * 60 * 60 * 24))
DaysSinceCreation(clock, created_at) == (clock - created_at) \div DAY

ProblemAlertAged(probs, p, clock) ==
  LET isOld == DaysSinceCreation(clock, probs[p].created_at) > OldAfterDays
  IN AlertData(IF isOld THEN "problem_unresolved" ELSE "problem_critical",
               IF isOld THEN "high"
               ELSE IF probs[p].severity = "critical" THEN "critical" ELSE "high",
               p, "problem")

ProblemAlert(probs, p, clock) ==
  LET isCritical == probs[p].severity = "critical"
      isOld == DaysSinceCreation(clock, probs[p].created_at) > OldAfterDays
  IN AlertData(IF isOld THEN "problem_unresolved" ELSE "problem_critical",
               IF isCritical THEN "critical" ELSE "high", p, "problem")

(***************************************************************************)
(* Retention, deduplication and insert                                      *)
(***************************************************************************)
RetentionDeleteUnread(rows, threshold) == { r \in rows : ~(r.created_at < threshold) }

RetentionDeleteAnyAge(rows, threshold) == { r \in rows : ~r.is_read }

\* .delete().eq('is_read', true).lt('created_at', sevenDaysAgo): the rows left
RetentionDelete(rows, threshold) ==
  { r \in rows : ~(r.is_read /\ r.created_at < threshold) }

\* `${type}-${related_id}`
AlertKey(a) == a.type \o "-" \o a.related_id

ExistingSetAnyRead(existingAlerts) == { AlertKey(a) : a \in alerts }

ExistingSet(existingAlerts) == { AlertKey(a) : a \in existingAlerts }

FilterNewAnyRow(alertsToCreate, existingSet) ==
  SelectSeq(alertsToCreate,
            LAMBDA alert : AlertKey(alert) \notin { AlertKey(a) : a \in alerts })

\* alertsToCreate.filter(alert => !existingSet.has(key))
FilterNew(alertsToCreate, existingSet) ==
  SelectSeq(alertsToCreate, LAMBDA alert : AlertKey(alert) \notin existingSet)

InsertedRowsRead(newAlerts, firstId, clock) ==
  { [id |-> firstId + j - 1, type |-> newAlerts[j].type,
     related_id |-> newAlerts[j].related_id, severity |-> newAlerts[j].severity,
     is_read |-> TRUE, created_at |-> clock] : j \in 1..Len(newAlerts) }

InsertedRowsUnique(newAlerts, firstId, clock) ==
  { [id |-> firstId + j - 1, type |-> newAlerts[j].type,
     related_id |-> newAlerts[j].related_id, severity |-> newAlerts[j].severity,
     is_read |-> FALSE, created_at |-> clock] :
    j \in { m \in 1..Len(newAlerts) :
              ~\E r \in alerts : /\ ~r.is_read /\ r.type = newAlerts[m].type
                                  /\ r.related_id = newAlerts[m].related_id } }

InsertedRows(newAlerts, firstId, clock) ==
  { [id |-> firstId + j - 1, type |-> newAlerts[j].type,
     related_id |-> newAlerts[j].related_id, severity |-> newAlerts[j].severity,
     is_read |-> FALSE, created_at |-> clock] : j \in 1..Len(newAlerts) }

\* The table is in the realtime publication: a subscribed session is sent
\* one insert event per inserted row, in the order of the batch.
Published(rows, firstId) ==
  IF session.user
    THEN channel \o [j \in 1..Cardinality(rows) |->
                       CHOOSE r \in rows : r.id = firstId + j - 1]
    ELSE channel

(***************************************************************************)
(* One invocation of the handler                                            *)
(***************************************************************************)
\* pc is the await the invocation is suspended at.  accessed, failed, after,
\* calm, inserted and readBefore record what the invocation has done so far:
\* the tables it has touched, the store calls that returned an error, whether
\* a clean run ended just before it started with no change since, whether no
\* data changed while it ran, the rows it has inserted and the read rows
\* present when it started.
IdleInv ==
  [pc |-> "idle",
   caller |-> [method |-> "POST", hasAuthHeader |-> FALSE, tokenValid |-> FALSE,
               roleError |-> FALSE, role |-> "none"],
   today |-> 0, alertsToCreate |-> <<>>, sevenDaysAgo |-> 0, newAlerts |-> <<>>,
   response |-> NoResponse,
   accessed |-> {}, failed |-> {}, after |-> FALSE, calm |-> FALSE, inserted |-> 0,
   readBefore |-> {}]

\* The handler returns: its locals are gone, the response is what is left.
Finished(g, response) ==
  [g EXCEPT !.pc = "done", !.response = response, !.today = 0,
            !.alertsToCreate = <<>>, !.sevenDaysAgo = 0, !.newAlerts = <<>>,
            !.calm = (quiet = "running")]

\* quiet is "running" while an invocation runs and no data has changed since
\* it started, "clean" once such an invocation has returned the success
\* summary with no failing store call, and "changed" otherwise.
QuietAfter(g) ==
  IF g.pc # "done" THEN quiet
  ELSE IF quiet = "running" /\ g.failed = {} /\ g.response.success = "true"
    THEN "clean" ELSE "changed"

\* The outcomes of one store call: it succeeds, or it returns an error.
\* faults counts the errors returned so far.
MayFail(i) == IF faults < MaxFaults THEN BOOLEAN ELSE {FALSE}

NewFaults(i) == Cardinality(gen'[i].failed \ gen[i].failed)

\* No other invocation is in progress: the schedule of non-overlapping runs.
Others(i) == \A j \in DOMAIN gen \ {i} : gen[j].pc \in {"idle", "done"}

\* lines 18-39: preflight, then the Authorization header
Start(i, caller) ==
  /\ gen[i].pc \in {"idle", "done"}
  /\ LET g == [IdleInv EXCEPT !.caller = caller, !.after = (quiet = "clean"),
                              !.readBefore = { r \in alerts : r.is_read }]
     IN gen' = [gen EXCEPT ![i] =
          IF caller.method = "OPTIONS" THEN Finished(g, Preflight)
          ELSE IF ~caller.hasAuthHeader
            THEN Finished(g, ErrorResponse(401, "Unauthorized - missing authorization header"))
            ELSE [g EXCEPT !.pc = "getUser"]]
  /\ quiet' = IF gen'[i].pc = "done" THEN "changed" ELSE "running"
  /\ UNCHANGED <<now, kpis, kpiValues, actions, problems, alerts, nextId, faults, client>>

\* lines 47-54: supabaseAuth.auth.getUser()
GetUser(i) ==
  /\ gen[i].pc = "getUser"
  /\ gen' = [gen EXCEPT ![i] =
       IF ~gen[i].caller.tokenValid
         THEN Finished(@, ErrorResponse(401, "Unauthorized - invalid token"))
         ELSE [@ EXCEPT !.pc = "role"]]
  /\ quiet' = QuietAfter(gen'[i])
  /\ faults' = faults + NewFaults(i)
  /\ UNCHANGED <<now, kpis, kpiValues, actions, problems, alerts, nextId, client>>

RoleLookupEager(i) ==
  /\ gen[i].pc = "role"
  /\ gen' = [gen EXCEPT ![i] =
       LET g == [@ EXCEPT !.accessed = @ \cup {"kpi_values"}] IN
       IF g.caller.roleError
         THEN Finished(g, ErrorResponse(403, "Forbidden - unable to verify role"))
       ELSE IF ~IsAllowedRole(g.caller.role)
         THEN Finished(g, ErrorResponse(403, "Forbidden - admin or manager role required"))
       ELSE [g EXCEPT !.pc = "kpi", !.today = now \div DAY, !.alertsToCreate = <<>>]]
  /\ quiet' = QuietAfter(gen'[i])
  /\ faults' = faults + NewFaults(i)
  /\ UNCHANGED <<now, kpis, kpiValues, actions, problems, alerts, nextId, client>>

\* lines 61-87: the user_roles lookup, the role test, then `today`
RoleLookup(i) ==
  /\ gen[i].pc = "role"
  /\ gen' = [gen EXCEPT ![i] =
       IF @.caller.roleError
         THEN Finished(@, ErrorResponse(403, "Forbidden - unable to verify role"))
       ELSE IF ~IsAllowedRole(@.caller.role)
         THEN Finished(@, ErrorResponse(403, "Forbidden - admin or manager role required"))
       ELSE [@ EXCEPT !.pc = "kpi", !.today = now \div DAY, !.alertsToCreate = <<>>]]
  /\ quiet' = QuietAfter(gen'[i])
  /\ faults' = faults + NewFaults(i)
  /\ UNCHANGED <<now, kpis, kpiValues, actions, problems, alerts, nextId, client>>

\* lines 91-158: the kpi_values read and the KPI pass
KpiStep(i) ==
  /\ gen[i].pc = "kpi"
  /\ \E kpiError \in MayFail(i) :
       gen' = [gen EXCEPT ![i] =
         [@ EXCEPT !.pc = "overdue",
            !.accessed = @ \cup {"kpi_values"},
            !.failed = IF kpiError THEN @ \cup {"kpi"} ELSE @,
            !.alertsToCreate = IF kpiError THEN @ ELSE @ \o KpiPass(kpiValues, kpis)]]
  /\ quiet' = QuietAfter(gen'[i])
  /\ faults' = faults + NewFaults(i)
  /\ UNCHANGED <<now, kpis, kpiValues, actions, problems, alerts, nextId, client>>

OverdueStepAbort(i) ==
  /\ gen[i].pc = "overdue"
  /\ \E actionsError \in MayFail(i) :
       LET overdueActions == SeqOf(OverdueQuery(actions, gen[i].today)) IN
       gen' = [gen EXCEPT ![i] =
         IF actionsError
           THEN Finished([@ EXCEPT !.accessed = @ \cup {"actions"},
                                   !.failed = @ \cup {"overdue"}],
                         FailureResponse("read failed"))
           ELSE [@ EXCEPT !.pc = "urgent",
                    !.accessed = @ \cup {"actions"},
                    !.alertsToCreate =
                       @ \o [j \in 1..Len(overdueActions) |->
                               OverdueAlert(actions, overdueActions[j])]]]
  /\ quiet' = QuietAfter(gen'[i])
  /\ faults' = faults + NewFaults(i)
  /\ UNCHANGED <<now, kpis, kpiValues, actions, problems, alerts, nextId, client>>

\* lines 162-183: the overdue actions read and pass
OverdueStep(i) ==
  /\ gen[i].pc = "overdue"
  /\ \E actionsError \in MayFail(i) :
       LET overdueActions == SeqOf(OverdueQuery(actions, gen[i].today)) IN
       gen' = [gen EXCEPT ![i] =
         [@ EXCEPT !.pc = "urgent",
            !.accessed = @ \cup {"actions"},
            !.failed = IF actionsError THEN @ \cup {"overdue"} ELSE @,
            !.alertsToCreate =
               IF actionsError THEN @
               ELSE @ \o [j \in 1..Len(overdueActions) |->
                            OverdueAlert(actions, overdueActions[j])]]]
  /\ quiet' = QuietAfter(gen'[i])
  /\ faults' = faults + NewFaults(i)
  /\ UNCHANGED <<now, kpis, kpiValues, actions, problems, alerts, nextId, client>>

\* lines 187-208: the due-today urgent actions read and pass
UrgentStep(i) ==
  /\ gen[i].pc = "urgent"
  /\ \E urgentError \in MayFail(i) :
       LET urgentTodayActions == SeqOf(UrgentQuery(actions, gen[i].today)) IN
       gen' = [gen EXCEPT ![i] =
         [@ EXCEPT !.pc = "problems",
            !.accessed = @ \cup {"actions"},
            !.failed = IF urgentError THEN @ \cup {"urgent"} ELSE @,
            !.alertsToCreate =
               IF urgentError THEN @
               ELSE @ \o [j \in 1..Len(urgentTodayActions) |->
                            UrgentAlert(urgentTodayActions[j])]]]
  /\ quiet' = QuietAfter(gen'[i])
  /\ faults' = faults + NewFaults(i)
  /\ UNCHANGED <<now, kpis, kpiValues, actions, problems, alerts, nextId, client>>

\* lines 212-245: the problems read and pass, then sevenDaysAgo
ProblemsStep(i) ==
  /\ gen[i].pc = "problems"
  /\ \E problemsError \in MayFail(i) :
       LET criticalProblems == SeqOf(ProblemsQuery(problems)) IN
       gen' = [gen EXCEPT ![i] =
         [@ EXCEPT !.pc = "cleanup",
            !.accessed = @ \cup {"problems"},
            !.failed = IF problemsError THEN @ \cup {"problems"} ELSE @,
            !.alertsToCreate =
               IF problemsError THEN @
               ELSE @ \o [j \in 1..Len(criticalProblems) |->
                            ProblemAlert(problems, criticalProblems[j], now)],
            !.sevenDaysAgo = now - RetentionDays * DAY]]
  /\ quiet' = QuietAfter(gen'[i])
  /\ faults' = faults + NewFaults(i)
  /\ UNCHANGED <<now, kpis, kpiValues, actions, problems, alerts, nextId, client>>

CleanupStepAbort(i) ==
  /\ gen[i].pc = "cleanup"
  /\ \E deleteError \in MayFail(i) :
       /\ alerts' = IF deleteError THEN alerts
                    ELSE RetentionDelete(alerts, gen[i].sevenDaysAgo)
       /\ gen' = [gen EXCEPT ![i] =
            IF deleteError
              THEN Finished([@ EXCEPT !.accessed = @ \cup {"smart_alerts"},
                                      !.failed = @ \cup {"cleanup"}],
                            FailureResponse("delete failed"))
              ELSE [@ EXCEPT !.pc = "existing",
                       !.accessed = @ \cup {"smart_alerts"}]]
  /\ quiet' = QuietAfter(gen'[i])
  /\ faults' = faults + NewFaults(i)
  /\ UNCHANGED <<now, kpis, kpiValues, actions, problems, nextId, client>>

\* lines 246-254: the retention delete; its error is only logged
CleanupStep(i) ==
  /\ gen[i].pc = "cleanup"
  /\ \E deleteError \in MayFail(i) :
       /\ alerts' = IF deleteError THEN alerts
                    ELSE RetentionDelete(alerts, gen[i].sevenDaysAgo)
       /\ gen' = [gen EXCEPT ![i] =
            [@ EXCEPT !.pc = "existing",
               !.accessed = @ \cup {"smart_alerts"},
               !.failed = IF deleteError THEN @ \cup {"cleanup"} ELSE @]]
  /\ quiet' = QuietAfter(gen'[i])
  /\ faults' = faults + NewFaults(i)
  /\ UNCHANGED <<now, kpis, kpiValues, actions, problems, nextId, client>>

ExistingStepAbort(i) ==
  /\ gen[i].pc = "existing"
  /\ \E existingError \in MayFail(i) :
       LET existingAlerts == { a \in alerts : ~a.is_read }
           newAlerts == FilterNew(gen[i].alertsToCreate, ExistingSet(existingAlerts))
           g == [gen[i] EXCEPT !.accessed = @ \cup {"smart_alerts"},
                               !.failed = IF existingError THEN @ \cup {"existing"} ELSE @,
                               !.newAlerts = newAlerts]
       IN gen' = [gen EXCEPT ![i] =
            IF existingError THEN Finished(g, FailureResponse("read failed"))
            ELSE IF Len(newAlerts) > 0 THEN [g EXCEPT !.pc = "insert"]
            ELSE Finished(g, Summary(g.alertsToCreate, newAlerts))]
  /\ quiet' = QuietAfter(gen'[i])
  /\ faults' = faults + NewFaults(i)
  /\ UNCHANGED <<now, kpis, kpiValues, actions, problems, alerts, nextId, client>>

\* lines 259-280 and 294-305: the unread alerts read, the filter, and the
\* summary when nothing is left to insert
ExistingStep(i) ==
  /\ gen[i].pc = "existing"
  /\ \E existingError \in MayFail(i) :
       LET existingAlerts == IF existingError THEN {}
                             ELSE { a \in alerts : ~a.is_read }
           newAlerts == FilterNew(gen[i].alertsToCreate, ExistingSet(existingAlerts))
           g == [gen[i] EXCEPT !.accessed = @ \cup {"smart_alerts"},
                               !.failed = IF existingError THEN @ \cup {"existing"} ELSE @,
                               !.newAlerts = newAlerts]
       IN gen' = [gen EXCEPT ![i] =
            IF Len(newAlerts) > 0 THEN [g EXCEPT !.pc = "insert"]
            ELSE Finished(g, Summary(g.alertsToCreate, newAlerts))]
  /\ quiet' = QuietAfter(gen'[i])
  /\ faults' = faults + NewFaults(i)
  /\ UNCHANGED <<now, kpis, kpiValues, actions, problems, alerts, nextId, client>>

\* lines 281-317: the batch insert; its error is thrown and caught
InsertStep(i) ==
  /\ gen[i].pc = "insert"
  /\ \E insertError \in MayFail(i) :
       IF insertError
         THEN /\ \E thrown \in Thrown("insert failed") :
                   gen' = [gen EXCEPT ![i] =
                     Finished([@ EXCEPT !.failed = @ \cup {"insert"}],
                              FailureResponse(ErrorMessage(thrown)))]
              /\ UNCHANGED <<alerts, nextId, channel>>
         ELSE /\ nextId + Len(gen[i].newAlerts) - 1 <= MaxAlerts
              /\ alerts' = alerts \cup InsertedRows(gen[i].newAlerts, nextId, now)
              /\ nextId' = nextId + Len(gen[i].newAlerts)
              /\ channel' = Published(InsertedRows(gen[i].newAlerts, nextId, now), nextId)
              /\ gen' = [gen EXCEPT ![i] =
                   Finished([@ EXCEPT !.inserted = Len(gen[i].newAlerts)],
                            Summary(gen[i].alertsToCreate, gen[i].newAlerts))]
  /\ quiet' = QuietAfter(gen'[i])
  /\ faults' = faults + NewFaults(i)
  /\ UNCHANGED <<now, kpis, kpiValues, actions, problems, session, handled, cached, outcome>>

Run(i) ==
  \/ GetUser(i) \/ RoleLookup(i) \/ KpiStep(i) \/ OverdueStep(i) \/ UrgentStep(i)
  \/ ProblemsStep(i) \/ CleanupStep(i) \/ ExistingStep(i) \/ InsertStep(i)

(***************************************************************************)
(* The other clients of the store                                           *)
(***************************************************************************)
\* What an operation of the session left behind: the value it returned
\* ("none" when it returns nothing), the query keys it invalidated, the
\* number of update requests it sent to the store and the feedback it showed.
NoOutcome == [returned |-> "none", invalidated |-> {}, updates |-> 0, feedback |-> "none"]

Returned(value, keys, n) ==
  [NoOutcome EXCEPT !.returned = value, !.invalidated = keys, !.updates = n]

MarkReadEvery(rows, ids) == { [r EXCEPT !.is_read = TRUE] : r \in rows }

MarkRead(rows, ids) ==
  { IF r.id \in ids THEN [r EXCEPT !.is_read = TRUE] ELSE r : r \in rows }

\* markAsRead: update({is_read: true}).eq('id', alertId)
MarkAsRead(alertId) ==
  /\ \E error \in BOOLEAN :
       IF error
         THEN /\ outcome' = Returned("false", {}, 1)
              /\ UNCHANGED <<alerts, gen, quiet>>
         ELSE /\ alerts' = MarkRead(alerts, {alertId})
              /\ outcome' = Returned("true", {"smart-alerts-unread", "smart-alerts"}, 1)
              /\ quiet' = "changed"
              /\ UNCHANGED gen
  /\ UNCHANGED <<now, kpis, kpiValues, actions, problems, nextId, faults>>
  /\ UNCHANGED <<session, channel, handled, cached>>

\* markAllAsRead: update({is_read: true}).eq('is_read', false)
MarkAllAsRead ==
  /\ \E error \in BOOLEAN :
       IF error
         THEN /\ outcome' = Returned("false", {}, 1)
              /\ UNCHANGED <<alerts, gen, quiet>>
         ELSE /\ alerts' = MarkRead(alerts, { r.id : r \in { x \in alerts : ~x.is_read } })
              /\ outcome' = Returned("true", {"smart-alerts-unread", "smart-alerts"}, 1)
              /\ quiet' = "changed"
              /\ UNCHANGED gen
  /\ UNCHANGED <<now, kpis, kpiValues, actions, problems, nextId, faults>>
  /\ UNCHANGED <<session, channel, handled, cached>>

\* A new reading of a KPI; it is the newest one.
RecordKpiValue(value) ==
  /\ Len(kpiValues) < MaxRecorded
  /\ kpiValues' = <<value>> \o kpiValues
  /\ quiet' = "changed"
  /\ UNCHANGED gen
  /\ UNCHANGED <<now, kpis, actions, problems, alerts, nextId, faults, client>>

\* An action is created or edited.
SaveAction(a, row) ==
  /\ actions[a] # row
  /\ actions' = [actions EXCEPT ![a] = row]
  /\ quiet' = "changed"
  /\ UNCHANGED gen
  /\ UNCHANGED <<now, kpis, kpiValues, problems, alerts, nextId, faults, client>>

\* A problem is reported, or an existing one is edited.
SaveProblem(p, severity, status) ==
  /\ problems' = [problems EXCEPT ![p] =
       [severity |-> severity, status |-> status,
        created_at |-> IF @ = NoRow THEN now ELSE @.created_at]]
  /\ problems' # problems
  /\ quiet' = "changed"
  /\ UNCHANGED gen
  /\ UNCHANGED <<now, kpis, kpiValues, actions, alerts, nextId, faults, client>>

\* The clock advances by d hours.
Tick(d) ==
  /\ now + d <= Epoch + MaxTicks * d
  /\ now' = now + d
  /\ quiet' = "changed"
  /\ UNCHANGED gen
  /\ UNCHANGED <<kpis, kpiValues, actions, problems, alerts, nextId, faults, client>>

(***************************************************************************)
(* The browser session: the notification hook and the header                *)
(* (src/src/hooks/useNotifications.tsx, src/src/components/layout/          *)
(* AppHeader.tsx)                                                           *)
(***************************************************************************)
\* useState default of the hook: every toggle on.
DefaultSettings ==
  [email_alerts |-> TRUE, action_reminders |-> TRUE, problem_escalation |-> TRUE,
   kpi_alerts |-> TRUE]

\* The user_settings rows a user may have stored.
StoredSettings ==
  [email_alerts : {TRUE}, action_reminders : BOOLEAN, problem_escalation : BOOLEAN,
   kpi_alerts : BOOLEAN]

\* role is what useAuth has handed to the hook so far ("null" until the role
\* is known), settings the hook's local state; heldRole and userSettings are
\* the user's rows in user_roles and user_settings.
NoSession ==
  [user |-> FALSE, role |-> "null", settings |-> DefaultSettings, loaded |-> FALSE,
   heldRole |-> "none", userSettings |-> NoRow]

SignedIn(heldRole, userSettings) ==
  [NoSession EXCEPT !.user = TRUE, !.heldRole = heldRole, !.userSettings = userSettings]

\* lines 98-103
ShouldNotify(newAlert, settings) ==
  IF newAlert.type = "kpi_critical" /\ ~settings.kpi_alerts THEN FALSE
  ELSE IF newAlert.type = "action_overdue" /\ ~settings.action_reminders THEN FALSE
  ELSE IF newAlert.type = "problem_critical" /\ ~settings.problem_escalation THEN FALSE
  ELSE TRUE

\* lines 106-109
CanSeeAlert(role) == IF role = "admin" THEN FALSE ELSE TRUE

ToastFlat(severity) == [level |-> "info", duration |-> 5000]

\* lines 117-123: the notification shown for a severity
Toast(severity) ==
  IF severity = "critical" \/ severity = "high"
    THEN [level |-> "error", duration |-> 8000]
  ELSE IF severity = "warning" \/ severity = "medium"
    THEN [level |-> "warning", duration |-> 6000]
  ELSE [level |-> "info", duration |-> 5000]

LoadedSettingsKept(userSettings, settings) == settings

\* lines 54-63: the fetched row replaces the local settings; no row, no change
LoadedSettings(userSettings, settings) ==
  IF userSettings = NoRow THEN settings
  ELSE [email_alerts |-> userSettings.email_alerts,
        action_reminders |-> userSettings.action_reminders,
        problem_escalation |-> userSettings.problem_escalation,
        kpi_alerts |-> userSettings.kpi_alerts]

\* useAuth delivers the user's role to the hook.
LoadRole ==
  /\ session.user
  /\ session.role = "null"
  /\ session.heldRole # "none"
  /\ session' = [session EXCEPT !.role = session.heldRole]
  /\ UNCHANGED <<now, kpis, kpiValues, actions, problems, alerts, nextId, gen, quiet, faults>>
  /\ UNCHANGED <<channel, handled, cached, outcome>>

\* lines 38-63: the user-settings query resolves
LoadSettings ==
  /\ session.user
  /\ ~session.loaded
  /\ session' = [session EXCEPT !.loaded = TRUE,
                                !.settings = LoadedSettings(session.userSettings, @)]
  /\ UNCHANGED <<now, kpis, kpiValues, actions, problems, alerts, nextId, gen, quiet, faults>>
  /\ UNCHANGED <<channel, handled, cached, outcome>>

\* A writer inserts one alert row; the row is published like any other.
InsertAlert(type, severity, id) ==
  /\ nextId <= MaxEvents
  /\ LET row == [id |-> nextId, type |-> type, related_id |-> id, severity |-> severity,
                 is_read |-> FALSE, created_at |-> now]
     IN /\ alerts' = alerts \cup {row}
        /\ channel' = Published({row}, nextId)
  /\ nextId' = nextId + 1
  /\ quiet' = "changed"
  /\ UNCHANGED <<now, kpis, kpiValues, actions, problems, gen, faults>>
  /\ UNCHANGED <<session, handled, cached, outcome>>

OnInsertQuiet ==
  /\ session.user
  /\ channel # <<>>
  /\ LET newAlert == Head(channel)
         shown == IF ShouldNotify(newAlert, session.settings) /\ CanSeeAlert(session.role)
                    THEN << Toast(newAlert.severity) >> ELSE <<>>
     IN /\ handled' = Append(handled, [alert |-> newAlert, role |-> session.role,
                                       settings |-> session.settings, shown |-> shown])
        /\ outcome' = IF shown = <<>> THEN NoOutcome
                       ELSE Returned("none", {"smart-alerts-unread", "smart-alerts"}, 0)
  /\ channel' = Tail(channel)
  /\ UNCHANGED <<now, kpis, kpiValues, actions, problems, alerts, nextId, gen, quiet, faults>>
  /\ UNCHANGED <<session, cached>>

\* lines 94-129: the handler of one insert event.  It records the role and
\* the settings it ran with and the notifications it showed.
OnInsert ==
  /\ session.user
  /\ channel # <<>>
  /\ LET newAlert == Head(channel)
         shown == IF ShouldNotify(newAlert, session.settings) /\ CanSeeAlert(session.role)
                    THEN << Toast(newAlert.severity) >> ELSE <<>>
     IN handled' = Append(handled, [alert |-> newAlert, role |-> session.role,
                                    settings |-> session.settings, shown |-> shown])
  /\ channel' = Tail(channel)
  /\ outcome' = Returned("none", {"smart-alerts-unread", "smart-alerts"}, 0)
  /\ UNCHANGED <<now, kpis, kpiValues, actions, problems, alerts, nextId, gen, quiet, faults>>
  /\ UNCHANGED <<session, cached>>

\* AppHeader line 51: the header's alert list is fetched again.
Refetch ==
  /\ cached # alerts
  /\ cached' = alerts
  /\ UNCHANGED <<now, kpis, kpiValues, actions, problems, alerts, nextId, gen, quiet, faults>>
  /\ UNCHANGED <<session, channel, handled, outcome>>

\* AppHeader lines 64-75
HandleMarkAsRead(alertId) ==
  /\ \E error \in BOOLEAN :
       IF error
         THEN /\ outcome' = [Returned("none", {}, 1) EXCEPT !.feedback = "error"]
              /\ UNCHANGED <<alerts, quiet>>
         ELSE /\ alerts' = MarkRead(alerts, {alertId})
              /\ outcome' = Returned("none", {"smart-alerts"}, 1)
              /\ quiet' = "changed"
  /\ UNCHANGED <<now, kpis, kpiValues, actions, problems, nextId, gen, faults>>
  /\ UNCHANGED <<session, channel, handled, cached>>

\* AppHeader line 78
UnreadIds(list) == { a.id : a \in { x \in list : ~x.is_read } }

\* AppHeader lines 77-92
HandleMarkAllAsRead ==
  /\ LET unreadIds == UnreadIds(cached) IN
       IF unreadIds = {}
         THEN /\ outcome' = NoOutcome
              /\ UNCHANGED <<alerts, quiet>>
       ELSE \E error \in BOOLEAN :
         IF error
           THEN /\ outcome' = [Returned("none", {}, 1) EXCEPT !.feedback = "error"]
                /\ UNCHANGED <<alerts, quiet>>
           ELSE /\ alerts' = MarkRead(alerts, unreadIds)
                /\ outcome' = [Returned("none", {"smart-alerts"}, 1)
                                 EXCEPT !.feedback = "success"]
                /\ quiet' = "changed"
  /\ UNCHANGED <<now, kpis, kpiValues, actions, problems, nextId, gen, faults>>
  /\ UNCHANGED <<session, channel, handled, cached>>


(***************************************************************************)
(* Specifications                                                           *)
(***************************************************************************)
Reading(k, s, t) == [kpi_id |-> k, status |-> s, trend |-> t]
Readings == { Reading(k, s, t) : k \in KpiIds, s \in KpiStatus, t \in KpiTrend }
ActionRow(d, p, s) == [due_date |-> d, priority |-> p, status |-> s]
ProblemRow(v, s, c) == [severity |-> v, status |-> s, created_at |-> c]

\* Nobody is signed in: no subscription, nothing delivered, nothing shown.
SignedOut ==
  /\ session = NoSession
  /\ channel = <<>>
  /\ handled = <<>>
  /\ cached = {}
  /\ outcome = NoOutcome

NoActions  == [a \in ActionIds |-> NoRow]
NoProblems == [p \in ProblemIds |-> NoRow]
AllIdle    == [i \in Invs |-> IdleInv]

\* The interleaved system: the store starts empty, the generator is invoked
\* again and again, one invocation at a time, while users mark alerts read,
\* record readings and edit actions and problems.
EnvReadings == { Reading("k1", "red", "up"), Reading("k1", "green", "up") }
EnvActions  == { ActionRow(EpochDay, "high", s) : s \in {"todo", "completed"} }
EnvCallers  == { c \in AuthorizedCallers : c.role = "manager" }

Init ==
  /\ now = Epoch
  /\ SignedOut
  /\ kpis = KpiIds
  /\ kpiValues = <<>>
  /\ actions = NoActions
  /\ problems = NoProblems
  /\ alerts = {}
  /\ nextId = 1
  /\ gen = AllIdle
  /\ quiet = "changed"
  /\ faults = 0

Environment ==
  \/ \E v \in EnvReadings : RecordKpiValue(v)
  \/ \E row \in EnvActions : SaveAction("a1", row)
  \/ \E s \in ProblemStatus : SaveProblem("p1", "critical", s)

Users ==
  \/ \E r \in alerts : MarkAsRead(r.id)
  \/ MarkAllAsRead

Next ==
  \/ \E i \in Invs : \E c \in EnvCallers : Others(i) /\ Start(i, c)
  \/ \E i \in Invs : Run(i)
  \/ Users
  \/ Environment

Spec == Init /\ [][Next]_vars

\* Authorization: one store in which every pass has something to report and
\* the sweep something to delete, invoked by every kind of caller while the
\* clock advances.
StoredAlert(n, type, id, severity, read, age) ==
  [id |-> 100 + n, type |-> type, related_id |-> id, severity |-> severity,
   is_read |-> read, created_at |-> Epoch - age]

InitAuth ==
  /\ now = Epoch
  /\ SignedOut
  /\ kpis = KpiIds
  /\ kpiValues = << Reading("k1", "red", "up") >>
  /\ actions = [NoActions EXCEPT !["a1"] = ActionRow(EpochDay - 1, "low", "todo"),
                                 !["a2"] = ActionRow(EpochDay, "urgent", "todo")]
  /\ problems = [NoProblems EXCEPT !["p1"] = ProblemRow("critical", "open", Epoch - DAY)]
  /\ alerts = { StoredAlert(1, "kpi_critical", "k1", "critical", TRUE, 8 * DAY),
                StoredAlert(2, "kpi_critical", "k1", "critical", FALSE, DAY) }
  /\ nextId = 1
  /\ gen = AllIdle
  /\ quiet = "changed"
  /\ faults = 0

NextAuth ==
  \/ \E i \in Invs : \E c \in Callers : Others(i) /\ Start(i, c)
  \/ \E i \in Invs : Run(i)
  \/ Tick(DAY)

SpecAuth == InitAuth /\ [][NextAuth]_vars

\* One domain at a time: the tables are drawn from bounded sets, then the
\* generator runs, and runs again.
DrawnDays     == { EpochDay - 1, EpochDay, EpochDay + 1 }
DrawnActions  == { ActionRow(d, p, s) : d \in DrawnDays, p \in Priorities, s \in ActionStatus }
DrawnAges     == { 0, 3 * DAY, 3 * DAY + 1, 4 * DAY }
DrawnProblems == { ProblemRow(v, s, Epoch - age) :
                     v \in ProblemSeverity, s \in ProblemStatus, age \in DrawnAges }
StoredAges    == { 6 * DAY, 7 * DAY, 7 * DAY + 1, 8 * DAY }
DrawnAlerts(n) == { StoredAlert(n, "kpi_critical", "k1", "critical", read, age) :
                      read \in BOOLEAN, age \in StoredAges }
DrawnStores   == { s \in SUBSET (UNION { DrawnAlerts(n) : n \in 1..MaxStored }) :
                     \A r1, r2 \in s : r1.id = r2.id => r1 = r2 }

InitRun ==
  /\ now = Epoch
  /\ SignedOut
  /\ nextId = 1
  /\ gen = AllIdle
  /\ quiet = "changed"
  /\ faults = 0
  /\ \/ /\ kpis \in { KpiIds, {"k1"} }
        /\ kpiValues \in SeqsUpTo(Readings, MaxReadings)
        /\ actions = NoActions /\ problems = NoProblems /\ alerts = {}
     \/ /\ actions \in [ActionIds -> DrawnActions \cup {NoRow}]
        /\ kpis = KpiIds /\ kpiValues = <<>> /\ problems = NoProblems /\ alerts = {}
     \/ /\ problems \in [ProblemIds -> DrawnProblems \cup {NoRow}]
        /\ kpis = KpiIds /\ kpiValues = <<>> /\ actions = NoActions /\ alerts = {}
     \/ /\ alerts \in DrawnStores
        /\ kpiValues \in { <<>>, << Reading("k1", "red", "up") >> }
        /\ kpis = KpiIds /\ actions = NoActions /\ problems = NoProblems

NextRun ==
  \/ \E i \in Invs : \E c \in EnvCallers : Others(i) /\ Start(i, c)
  \/ \E i \in Invs : Run(i)

SpecRun == InitRun /\ [][NextRun]_vars

\* The dispatcher: a user is signed in with a stored role and stored
\* settings; rows are inserted and published while the role and the settings
\* are still being loaded, and after.
DispatchRoles == {"admin", "operator"}
DrawnEvents ==
  { <<"kpi_critical", "critical", "k1">>, <<"kpi_warning", "high", "k1">>,
    <<"kpi_trend", "medium", "k1">>, <<"action_overdue", "critical", "a1">>,
    <<"action_urgent", "high", "a1">>, <<"problem_critical", "critical", "p1">>,
    <<"problem_unresolved", "high", "p1">>, <<"system", "warning", "s1">>,
    <<"system", "low", "s1">> }

InitDispatch ==
  /\ now = Epoch
  /\ kpis = KpiIds
  /\ kpiValues = <<>>
  /\ actions = NoActions
  /\ problems = NoProblems
  /\ alerts = {}
  /\ nextId = 1
  /\ gen = AllIdle
  /\ quiet = "changed"
  /\ faults = 0
  /\ session \in { SignedIn(r, u) : r \in DispatchRoles, u \in StoredSettings \cup {NoRow} }
  /\ channel = <<>>
  /\ handled = <<>>
  /\ cached = {}
  /\ outcome = NoOutcome

NextDispatch ==
  \/ LoadRole
  \/ LoadSettings
  \/ \E e \in DrawnEvents : InsertAlert(e[1], e[2], e[3])
  \/ OnInsert

SpecDispatch == InitDispatch /\ [][NextDispatch]_vars

\* Marking read: a signed-in session holds a store of read and unread
\* alerts; rows keep arriving while the hook and the header mark alerts read
\* and the header's list is fetched again from time to time.
MarkEvents == { <<"action_overdue", "critical", "a1">>, <<"kpi_warning", "high", "k1">> }
MarkStores ==
  { s \in SUBSET { StoredAlert(n, "kpi_critical", "k1", "critical", read, DAY) :
                     n \in 1..MaxStored, read \in BOOLEAN } :
      \A r1, r2 \in s : r1.id = r2.id => r1 = r2 }

InitMark ==
  /\ now = Epoch
  /\ kpis = KpiIds
  /\ kpiValues = <<>>
  /\ actions = NoActions
  /\ problems = NoProblems
  /\ alerts \in MarkStores
  /\ nextId = 1
  /\ gen = AllIdle
  /\ quiet = "changed"
  /\ faults = 0
  /\ session = SignedIn("operator", NoRow)
  /\ channel = <<>>
  /\ handled = <<>>
  /\ cached = {}
  /\ outcome = NoOutcome

NextMark ==
  \/ \E e \in MarkEvents : InsertAlert(e[1], e[2], e[3])
  \/ OnInsert
  \/ Refetch
  \/ \E r \in alerts : MarkAsRead(r.id)
  \/ MarkAllAsRead
  \/ \E r \in cached : HandleMarkAsRead(r.id)
  \/ HandleMarkAllAsRead

SpecMark == InitMark /\ [][NextMark]_vars

\* Overlapping invocations: two invocations of the handler run at once on a
\* store with one red KPI, and no store call fails.
Racers == {1, 2}

InitRace ==
  /\ now = Epoch
  /\ SignedOut
  /\ kpis = KpiIds
  /\ kpiValues = << Reading("k1", "red", "up") >>
  /\ actions = NoActions
  /\ problems = NoProblems
  /\ alerts = {}
  /\ nextId = 1
  /\ gen = [i \in Racers |-> IdleInv]
  /\ quiet = "changed"
  /\ faults = MaxFaults

NextRace ==
  \/ \E i \in Racers : \E c \in EnvCallers : Start(i, c)
  \/ \E i \in Racers : Run(i)

SpecRace == InitRace /\ [][NextRace]_vars

\* Edits during a run: one action is overdue, and another client moves its
\* due date between yesterday and today while the generator runs.
EditRows == { ActionRow(d, "high", "todo") : d \in {EpochDay - 1, EpochDay} }

InitEdit ==
  /\ now = Epoch
  /\ SignedOut
  /\ kpis = KpiIds
  /\ kpiValues = <<>>
  /\ actions = [NoActions EXCEPT !["a1"] = ActionRow(EpochDay - 1, "high", "todo")]
  /\ problems = NoProblems
  /\ alerts = {}
  /\ nextId = 1
  /\ gen = AllIdle
  /\ quiet = "changed"
  /\ faults = 0

NextEdit ==
  \/ \E i \in Invs : \E c \in EnvCallers : Others(i) /\ Start(i, c)
  \/ \E i \in Invs : Run(i)
  \/ \E row \in EditRows : SaveAction("a1", row)

SpecEdit == InitEdit /\ [][NextEdit]_vars

\* The life of an alert: a store of old and recent, read and unread alerts
\* of a KPI that is still red; the generator runs again and again while a
\* hook and a header mark alerts read and the clock advances; no store call of
\* the generator fails.
LifeAges   == { 6 * DAY, 8 * DAY }
LifeStores ==
  { s \in SUBSET { StoredAlert(n, "kpi_critical", "k1", "critical", read, age) :
                     n \in 1..MaxStored, read \in BOOLEAN, age \in LifeAges } :
      /\ \A r1, r2 \in s : r1.id = r2.id => r1 = r2
      /\ Cardinality({ r \in s : ~r.is_read }) <= 1 }

InitLife ==
  /\ now = Epoch
  /\ SignedOut
  /\ kpis = KpiIds
  /\ kpiValues = << Reading("k1", "red", "up") >>
  /\ actions = NoActions
  /\ problems = NoProblems
  /\ alerts \in LifeStores
  /\ nextId = 1
  /\ gen = AllIdle
  /\ quiet = "changed"
  /\ faults = MaxFaults

NextLife ==
  \/ \E i \in Invs : \E c \in EnvCallers : Others(i) /\ Start(i, c)
  \/ \E i \in Invs : Run(i)
  \/ \E r \in alerts : MarkAsRead(r.id)
  \/ MarkAllAsRead
  \/ Refetch
  \/ \E r \in cached : HandleMarkAsRead(r.id)
  \/ HandleMarkAllAsRead
  \/ Tick(DAY)

SpecLife == InitLife /\ [][NextLife]_vars

(***************************************************************************)
(* Properties                                                               *)
(***************************************************************************)
Count(seq, type, id) ==
  Cardinality({ j \in 1..Len(seq) : seq[j].type = type /\ seq[j].related_id = id })

Candidates(seq, type, id) ==
  { seq[j] : j \in { m \in 1..Len(seq) : seq[m].type = type /\ seq[m].related_id = id } }

Authorized(i) ==
  /\ gen[i].caller.method = "POST"
  /\ gen[i].caller.hasAuthHeader
  /\ gen[i].caller.tokenValid
  /\ ~gen[i].caller.roleError
  /\ gen[i].caller.role \in {"admin", "manager"}

\* The invocation holds the candidates of the named pass, whose read succeeded.
Past(i, step, pcs) == gen[i].pc \in pcs /\ step \notin gen[i].failed

AfterKpi(i)      == Past(i, "kpi", {"overdue", "urgent", "problems", "cleanup", "existing", "insert"})
AfterOverdue(i)  == Past(i, "overdue", {"urgent", "problems", "cleanup", "existing", "insert"})
AfterUrgent(i)   == Past(i, "urgent", {"problems", "cleanup", "existing", "insert"})
AfterProblems(i) == Past(i, "problems", {"cleanup", "existing", "insert"})
AfterCleanup(i)  == Authorized(i) /\ Past(i, "cleanup", {"existing", "insert", "done"})

HasReading(k) == \E j \in 1..Len(kpiValues) : kpiValues[j].kpi_id = k

\* The newest reading of KPI k: the first of its readings in newest-first order.
Newest(k) ==
  kpiValues[CHOOSE j \in 1..Len(kpiValues) :
              /\ kpiValues[j].kpi_id = k
              /\ \A m \in 1..(j - 1) : kpiValues[m].kpi_id # k]

Older(k, status) ==
  \E j, m \in 1..Len(kpiValues) :
     j < m /\ kpiValues[j].kpi_id = k /\ kpiValues[m].kpi_id = k
     /\ kpiValues[m].status = status

\* C1: with invocations that never overlap, interleaved with mark-one-read,
\* mark-all-read and changes of readings, actions and problems, the store
\* never holds two unread alerts with the same (type, related_id) pair.
C1_NoDuplicateUnread ==
  \A r1, r2 \in alerts :
     (~r1.is_read /\ ~r2.is_read /\ r1.type = r2.type
        /\ r1.related_id = r2.related_id) => r1 = r2

\* C2: an authorized run that starts right after an authorized run which
\* returned the success summary with every store call succeeding, with no
\* change of the data or the clock from the start of the first to the end of
\* the second, inserts no row and reports newAlertsCreated = 0 and
\* duplicatesSkipped = totalChecked.
C2_Idempotent ==
  \A i \in Invs :
     (gen[i].pc = "done" /\ Authorized(i) /\ gen[i].after /\ gen[i].calm) =>
        /\ gen[i].response.status = 200
        /\ gen[i].response.newAlertsCreated = 0
        /\ gen[i].response.duplicatesSkipped = gen[i].response.totalChecked
        /\ gen[i].inserted = 0

\* C3: an invocation whose caller lacks the Authorization header, a valid
\* credential, a successful role lookup or the admin or manager role never
\* reads a KPI reading, action, problem or alert, never deletes or inserts
\* an alert, and ends with an error response.
C3_FailFast ==
  \A i \in Invs :
     (gen[i].pc # "idle" /\ ~Authorized(i)) =>
        /\ gen[i].accessed = {}
        /\ gen[i].inserted = 0
        /\ (gen[i].pc = "done" /\ gen[i].caller.method = "POST")
             => gen[i].response.status \in {401, 403}

C3_Witness ==
  \E i \in Invs :
     /\ gen[i].pc = "done"
     /\ gen[i].caller.method = "POST" /\ gen[i].caller.hasAuthHeader
     /\ gen[i].caller.tokenValid /\ ~gen[i].caller.roleError
     /\ gen[i].caller.role = "team_leader"
     /\ gen[i].response.status = 403
     /\ alerts # {}

\* C4: each authorization failure has its one response, tested in the order
\* missing header (401), invalid credential (401), role lookup error (403),
\* role other than admin or manager (403); the success response goes only to
\* a caller whose role is admin or manager.
C4_AuthResponses ==
  \A i \in Invs :
     (gen[i].pc = "done" /\ gen[i].caller.method = "POST") =>
        LET c == gen[i].caller
            r == gen[i].response
        IN /\ ~c.hasAuthHeader =>
                r = ErrorResponse(401, "Unauthorized - missing authorization header")
           /\ (c.hasAuthHeader /\ ~c.tokenValid) =>
                r = ErrorResponse(401, "Unauthorized - invalid token")
           /\ (c.hasAuthHeader /\ c.tokenValid /\ c.roleError) =>
                r = ErrorResponse(403, "Forbidden - unable to verify role")
           /\ (c.hasAuthHeader /\ c.tokenValid /\ ~c.roleError
                 /\ c.role \notin {"admin", "manager"}) =>
                r = ErrorResponse(403, "Forbidden - admin or manager role required")
           /\ (r.status = 200 /\ r.success = "true") =>
                (c.role \in {"admin", "manager"} /\ c.hasAuthHeader
                   /\ c.tokenValid /\ ~c.roleError)

C4_Witness ==
  \E i \in Invs :
     /\ gen[i].pc = "done"
     /\ gen[i].caller.method = "POST" /\ gen[i].caller.hasAuthHeader
     /\ ~gen[i].caller.tokenValid /\ gen[i].caller.roleError
     /\ gen[i].caller.role = "admin"
     /\ gen[i].response.status = 401

\* C5: from readings returned newest-first, the candidate list holds exactly
\* one kpi_critical candidate for each KPI whose newest reading is red, and
\* none for any other KPI, whatever the older readings are.
C5_OneCriticalPerRedKpi ==
  \A i \in Invs : AfterKpi(i) =>
     \A k \in KpiIds :
        Count(gen[i].alertsToCreate, "kpi_critical", k) =
          IF k \in kpis /\ HasReading(k) /\ Newest(k).status = "red" THEN 1 ELSE 0

C5_Witness ==
  \E i \in Invs :
     /\ AfterKpi(i)
     /\ "k1" \in kpis /\ HasReading("k1") /\ Newest("k1").status = "red"
     /\ Older("k1", "green")
     /\ Count(gen[i].alertsToCreate, "kpi_critical", "k1") = 1

\* C6: a KPI whose newest reading is orange with trend down gets one
\* kpi_warning and one kpi_trend candidate and no kpi_critical candidate,
\* even when an older reading of it is red.
C6_NewestOnly ==
  \A i \in Invs : AfterKpi(i) =>
     \A k \in kpis :
        (HasReading(k) /\ Newest(k).status = "orange" /\ Newest(k).trend = "down") =>
           /\ Count(gen[i].alertsToCreate, "kpi_warning", k) = 1
           /\ Count(gen[i].alertsToCreate, "kpi_trend", k) = 1
           /\ Count(gen[i].alertsToCreate, "kpi_critical", k) = 0

C6_Witness ==
  \E i \in Invs :
     /\ AfterKpi(i)
     /\ "k1" \in kpis /\ HasReading("k1")
     /\ Newest("k1").status = "orange" /\ Newest("k1").trend = "down"
     /\ Older("k1", "red")
     /\ Count(gen[i].alertsToCreate, "kpi_warning", "k1") = 1

\* C7: every action due strictly before the invocation's UTC date and not
\* completed yields exactly one action_overdue candidate, of severity critical
\* when its priority is urgent or high and high otherwise; a completed action
\* yields no action_overdue and no action_urgent candidate.
C7_Overdue ==
  \A i \in Invs : AfterOverdue(i) =>
     \A a \in ActionIds : actions[a] # NoRow =>
        /\ (actions[a].due_date < gen[i].today /\ actions[a].status # "completed") =>
              Candidates(gen[i].alertsToCreate, "action_overdue", a) =
                { AlertData("action_overdue",
                            IF actions[a].priority \in {"urgent", "high"}
                              THEN "critical" ELSE "high", a, "action") }
              /\ Count(gen[i].alertsToCreate, "action_overdue", a) = 1
        /\ actions[a].status = "completed" =>
              /\ Count(gen[i].alertsToCreate, "action_overdue", a) = 0
              /\ Count(gen[i].alertsToCreate, "action_urgent", a) = 0

C7_Witness ==
  \E i \in Invs :
     /\ AfterOverdue(i)
     /\ actions["a1"] # NoRow /\ actions["a2"] # NoRow
     /\ actions["a1"].due_date < gen[i].today /\ actions["a1"].status = "todo"
     /\ actions["a1"].priority = "urgent"
     /\ actions["a2"].due_date < gen[i].today /\ actions["a2"].status = "completed"
     /\ Count(gen[i].alertsToCreate, "action_overdue", "a1") = 1

\* C8: an action yields an action_urgent candidate exactly when it is due on
\* the invocation's UTC date, its priority is urgent or high and it is not
\* completed; each such candidate has severity high.
C8_UrgentToday ==
  \A i \in Invs : AfterUrgent(i) =>
     /\ \A a \in ActionIds :
           Count(gen[i].alertsToCreate, "action_urgent", a) =
             IF /\ actions[a] # NoRow
                /\ actions[a].due_date = gen[i].today
                /\ actions[a].priority \in {"urgent", "high"}
                /\ actions[a].status # "completed"
             THEN 1 ELSE 0
     /\ \A j \in 1..Len(gen[i].alertsToCreate) :
           gen[i].alertsToCreate[j].type = "action_urgent" =>
              gen[i].alertsToCreate[j].severity = "high"

C8_Witness ==
  \E i \in Invs :
     /\ AfterUrgent(i)
     /\ actions["a1"] # NoRow /\ actions["a2"] # NoRow
     /\ actions["a1"].due_date = gen[i].today /\ actions["a1"].priority = "high"
     /\ actions["a1"].status = "in_progress"
     /\ actions["a2"].due_date = gen[i].today /\ actions["a2"].priority = "medium"
     /\ actions["a2"].status = "todo"
     /\ Count(gen[i].alertsToCreate, "action_urgent", "a1") = 1

\* C9: a critical unresolved problem created exactly 3 days before the
\* invocation is classified problem_critical, and one created 3 days and
\* 1 hour before it is classified problem_unresolved.
C9_AgeBoundary ==
  \A i \in Invs : AfterProblems(i) =>
     \A p \in ProblemIds :
        (problems[p] # NoRow /\ problems[p].severity = "critical"
           /\ problems[p].status # "resolved") =>
           /\ now - problems[p].created_at = 3 * DAY =>
                Count(gen[i].alertsToCreate, "problem_critical", p) = 1
           /\ now - problems[p].created_at = 3 * DAY + 1 =>
                Count(gen[i].alertsToCreate, "problem_unresolved", p) = 1

\* C10: once the retention delete of an authorized run has succeeded, no alert
\* that was read and created more than 7 days before the run is left, and
\* every alert that was read and created less than 7 days before it is still
\* there.
C10_Retention ==
  \A i \in Invs : AfterCleanup(i) =>
     \A r \in gen[i].readBefore :
        /\ now - r.created_at > RetentionDays * DAY => r \notin alerts
        /\ now - r.created_at < RetentionDays * DAY => r \in alerts

C10_Witness ==
  \E i \in Invs :
     /\ AfterCleanup(i)
     /\ \E r \in gen[i].readBefore : now - r.created_at = 8 * DAY /\ r \notin alerts
     /\ \E r \in gen[i].readBefore : now - r.created_at = 6 * DAY /\ r \in alerts

KpiTypes     == {"kpi_critical", "kpi_warning", "kpi_trend"}
ActionTypes  == {"action_overdue", "action_urgent"}
ProblemTypes == {"problem_critical", "problem_unresolved"}

\* The notify predicate as the dispatcher's contract states it.
Suppressed(type, settings) ==
  \/ type \in KpiTypes /\ ~settings.kpi_alerts
  \/ type \in ActionTypes /\ ~settings.action_reminders
  \/ type \in ProblemTypes /\ ~settings.problem_escalation

Events == { handled[k] : k \in 1..Len(handled) }

\* C11: no notification is shown for an insert event whose type is a KPI
\* type while kpi_alerts is false, an action type while action_reminders is
\* false, or a problem type while problem_escalation is false; a non-admin
\* session with action_reminders true is shown one for action_overdue.
C11_NotifyPredicate ==
  \A h \in Events :
     /\ Suppressed(h.alert.type, h.settings) => h.shown = <<>>
     /\ (h.alert.type = "action_overdue" /\ h.settings.action_reminders
           /\ h.role \notin {"admin", "null"}) => Len(h.shown) = 1

\* C12: a session whose user holds the admin role is shown no notification
\* for any insert event, whenever the event arrives.
C12_AdminNeverNotified ==
  session.heldRole = "admin" => \A h \in Events : h.shown = <<>>

\* C13: an event that passes the notify and the visibility predicate is
\* shown exactly one notification; critical or high gives error and 8000 ms,
\* warning or medium gives warning and 6000 ms, anything else gives info and
\* 5000 ms, whatever the type of the alert.
C13_SeverityMapping ==
  \A h \in Events :
     /\ (~Suppressed(h.alert.type, h.settings) /\ h.role # "admin") => Len(h.shown) = 1
     /\ Len(h.shown) <= 1
     /\ \A j \in 1..Len(h.shown) :
          /\ h.alert.severity \in {"critical", "high"} =>
               h.shown[j] = [level |-> "error", duration |-> 8000]
          /\ h.alert.severity \in {"warning", "medium"} =>
               h.shown[j] = [level |-> "warning", duration |-> 6000]
          /\ h.alert.severity \notin {"critical", "high", "warning", "medium"} =>
               h.shown[j] = [level |-> "info", duration |-> 5000]

C13_Witness ==
  /\ \E h \in Events : h.shown # <<>> /\ h.shown[1].level = "warning"
                       /\ h.alert.severity = "warning"
  /\ \E h \in Events : h.shown # <<>> /\ h.shown[1].level = "info"

Unread(rows) == { r \in rows : ~r.is_read }

\* A mark-all-read whose update the store accepted.
MarkedAll ==
  /\ MarkAllAsRead \/ HandleMarkAllAsRead
  /\ outcome'.updates = 1
  /\ outcome'.returned # "false" /\ outcome'.feedback # "error"

\* C14: a mark-all-read, of the hook or of the header, leaves no alert of
\* the store unread once its update is accepted, and sends no update to the
\* store when the store holds no unread alert.
C14_MarkAllRead ==
  [][ /\ MarkedAll => Unread(alerts') = {}
      /\ ((MarkAllAsRead \/ HandleMarkAllAsRead) /\ Unread(alerts) = {})
            => outcome'.updates = 0 ]_vars

\* C15: markAsRead(alertId) returns true or false and nothing else; when it
\* returns false no row has changed and no query is invalidated; when it
\* returns true the row with that id is read, every other row is as it was,
\* and the unread list is invalidated.
C15_MarkOneRead ==
  [][ \A r \in alerts : MarkAsRead(r.id) =>
        /\ outcome'.returned \in {"true", "false"}
        /\ outcome'.returned = "false" =>
             alerts' = alerts /\ outcome'.invalidated = {}
        /\ outcome'.returned = "true" =>
             /\ alerts' = (alerts \ {r}) \cup {[r EXCEPT !.is_read = TRUE]}
             /\ \A x \in alerts : x.id # r.id => x \in alerts'
             /\ "smart-alerts-unread" \in outcome'.invalidated ]_vars

C15_Witness ==
  /\ outcome.returned = "true"
  /\ outcome.invalidated = {"smart-alerts-unread", "smart-alerts"}
  /\ Cardinality(Unread(alerts)) >= 2
  /\ \E r \in alerts : r.is_read

Keys(seq) == { <<seq[j].type, seq[j].related_id>> : j \in 1..Len(seq) }
KeysOf(seq, types) == { k \in Keys(seq) : k[1] \in types }
IdsOf(seq, types) == { k[2] : k \in KeysOf(seq, types) }

\* The four passes are over and the candidate list is still held.
PassesDone(i) == Authorized(i) /\ gen[i].pc \in {"cleanup", "existing", "insert"}

\* C16: a domain whose read failed contributes no candidate, every other
\* domain contributes the candidates of its pass, and the invocation goes on
\* to the success summary unless the insert itself fails.
C16_ReadFailureIsolated ==
  \A i \in Invs :
     /\ PassesDone(i) =>
          LET c == gen[i].alertsToCreate
              failed == gen[i].failed
          IN /\ KeysOf(c, KpiTypes) =
                  IF "kpi" \in failed THEN {} ELSE Keys(KpiPass(kpiValues, kpis))
             /\ IdsOf(c, {"action_overdue"}) =
                  IF "overdue" \in failed THEN {} ELSE OverdueQuery(actions, gen[i].today)
             /\ IdsOf(c, {"action_urgent"}) =
                  IF "urgent" \in failed THEN {} ELSE UrgentQuery(actions, gen[i].today)
             /\ IdsOf(c, ProblemTypes) =
                  IF "problems" \in failed THEN {} ELSE ProblemsQuery(problems)
     /\ (Authorized(i) /\ gen[i].pc = "done" /\ "insert" \notin gen[i].failed) =>
          /\ gen[i].response.status = 200
          /\ gen[i].response.success = "true"
          /\ gen[i].response.newAlertsCreated = gen[i].inserted

C16_Witness ==
  \E i \in Invs :
     /\ Authorized(i) /\ gen[i].pc = "done"
     /\ gen[i].failed = {"overdue"}
     /\ gen[i].response.success = "true"
     /\ gen[i].response.totalChecked >= 3
     /\ gen[i].inserted >= 2

\* C17: an invocation whose batch insert failed returns status 500 with
\* success false and an error message and no summary, inserts nothing, and
\* the read rows older than seven days that its retention delete removed
\* stay removed.
C17_InsertFailure ==
  \A i \in Invs :
     (Authorized(i) /\ gen[i].pc = "done" /\ "insert" \in gen[i].failed) =>
        /\ gen[i].response.status = 500
        /\ gen[i].response.success = "false"
        /\ gen[i].response.error \in {"insert failed", "Unknown error"}
        /\ gen[i].response.totalChecked = -1
        /\ gen[i].response.newAlertsCreated = -1
        /\ gen[i].inserted = 0
        /\ "cleanup" \notin gen[i].failed =>
             \A r \in gen[i].readBefore :
                r.created_at < Epoch - RetentionDays * DAY => r \notin alerts

C17_Witness ==
  \E i \in Invs :
     /\ Authorized(i) /\ gen[i].pc = "done"
     /\ gen[i].failed = {"insert"}
     /\ gen[i].response.status = 500
     /\ \E r \in gen[i].readBefore : r \notin alerts
     /\ \A r \in alerts : r.id > 100

\* The candidates of seq for which rows holds no row with their pair.
NotIn(seq, rows) ==
  { j \in 1..Len(seq) :
      ~\E r \in rows : r.type = seq[j].type /\ r.related_id = seq[j].related_id }

\* C18: when an invocation returns the success summary, totalChecked is the
\* length of its candidate list, newAlertsCreated the number of rows the
\* store gained in that step, duplicatesSkipped the number of candidates
\* that were not inserted, the first is the sum of the other two, and an
\* invocation that reports no new alert finished without an insert.
C18_Summary ==
  [][ \A i \in Invs :
        (gen[i].pc # "done" /\ gen'[i].pc = "done"
           /\ gen'[i].response.success = "true") =>
          LET r == gen'[i].response
              c == gen[i].alertsToCreate
          IN /\ r.totalChecked = Len(c)
             /\ r.newAlertsCreated = Cardinality(alerts' \ alerts)
             /\ r.duplicatesSkipped = Cardinality(NotIn(c, alerts' \ alerts))
             /\ r.totalChecked = r.newAlertsCreated + r.duplicatesSkipped
             /\ \A x \in alerts' \ alerts : ~x.is_read
             /\ r.newAlertsCreated = 0 => (gen[i].pc = "existing" /\ alerts' = alerts) ]_vars

C18_Witness ==
  \E i \in Invs :
     /\ gen[i].pc = "done" /\ gen[i].failed = {}
     /\ gen[i].response.success = "true"
     /\ gen[i].response.totalChecked = 4
     /\ gen[i].response.newAlertsCreated = 3
     /\ gen[i].response.duplicatesSkipped = 1
     /\ Cardinality({ x \in alerts : x.id < 100 }) = 3

\* C19: an invocation that passed its deduplication read with a candidate
\* left inserts an unread row for it, also when an overlapping invocation
\* has inserted a row with the same pair in between; so two invocations that
\* both read before either inserts leave two unread rows with one pair.
C19_RaceInserts ==
  [][ \A i \in Racers :
        (gen[i].pc = "insert" /\ gen'[i].pc = "done"
           /\ gen'[i].response.success = "true") =>
          \A j \in 1..Len(gen[i].newAlerts) :
             \E r \in alerts' \ alerts :
                /\ r.type = gen[i].newAlerts[j].type
                /\ r.related_id = gen[i].newAlerts[j].related_id
                /\ ~r.is_read ]_vars

C19_Witness ==
  /\ faults = MaxFaults
  /\ \A i \in Racers : /\ gen[i].pc = "done" /\ gen[i].failed = {}
                       /\ gen[i].inserted = 1
                       /\ gen[i].response.duplicatesSkipped = 0
  /\ \E r1, r2 \in alerts :
        /\ r1.id # r2.id
        /\ ~r1.is_read /\ ~r2.is_read
        /\ r1.type = "kpi_critical" /\ r2.type = "kpi_critical"
        /\ r1.related_id = "k1" /\ r2.related_id = "k1"

\* C20: the candidate list of an invocation never holds an action_overdue
\* and an action_urgent candidate for the same action.
C20_NoDoubleFire ==
  \A i \in Invs : \A a \in ActionIds :
     ~(/\ Count(gen[i].alertsToCreate, "action_overdue", a) > 0
       /\ Count(gen[i].alertsToCreate, "action_urgent", a) > 0)

\* The candidates of the list that relate to problem p.
OfProblem(seq, p) ==
  { j \in 1..Len(seq) : seq[j].related_id = p /\ seq[j].type \in ProblemTypes }

Ids(rows) == { r.id : r \in rows }

\* The step is the retention delete of an invocation.
SweepStep == \E i \in Invs : gen[i].pc = "cleanup" /\ gen'[i].pc = "existing"

\* C22: a row leaves the store only in the retention delete of a generator
\* invocation, and only if it is read and was created more than seven days
\* before; no step removes an unread row or a read row younger than that.
C22_DeleteOnlyBySweep ==
  [][ \A r \in alerts :
        r.id \notin Ids(alerts') =>
          /\ SweepStep
          /\ r.is_read
          /\ now - r.created_at > RetentionDays * DAY ]_vars

C22_Witness ==
  /\ outcome.returned = "true"
  /\ \E i \in Invs :
        /\ gen[i].pc = "done" /\ gen[i].response.success = "true"
        /\ \E r \in gen[i].readBefore : r.id \notin Ids(alerts)
        /\ \E r \in gen[i].readBefore :
              r \in alerts /\ now - r.created_at < RetentionDays * DAY
  /\ \E r \in alerts : ~r.is_read

\* C23: in every step a row that stays in the store is unchanged or has
\* gone from unread to read; a row that enters the store is unread; and a
\* step of the generator changes no row that was already there.
C23_OnlyReadFlagChanges ==
  [][ /\ \A r \in alerts : \A x \in alerts' :
           x.id = r.id =>
             \/ x = r
             \/ ~r.is_read /\ x = [r EXCEPT !.is_read = TRUE]
      /\ \A x \in alerts' : x.id \notin Ids(alerts) => ~x.is_read
      /\ gen' # gen => \A r \in alerts : \A x \in alerts' : x.id = r.id => x = r ]_vars

C23_Witness ==
  /\ \E x \in alerts : x.id < 100 /\ x.is_read
  /\ \E x \in alerts : x.id < 100 /\ ~x.is_read
  /\ \E x \in alerts : x.id > 100 /\ x.is_read
  /\ outcome.feedback = "success"

\* The awaits of an authorized invocation, in the order of the code.
StepOrder == << "kpi", "overdue", "urgent", "problems", "cleanup", "existing", "insert" >>

Position(pc) == CHOOSE k \in 1..Len(StepOrder) : StepOrder[k] = pc

InOrder(pc) == \E k \in 1..Len(StepOrder) : StepOrder[k] = pc

\* C24: an invocation goes from one await to the next one of the order, the
\* four passes first, then the retention delete, then the deduplication
\* read, then the insert, and returns from the deduplication read or from
\* the insert only; the candidate list changes in the passes only, rows
\* leave the store in the retention delete only and enter it in the insert
\* only; and an invocation whose retention delete alone failed still returns
\* the success summary with its rows inserted.
C24_StepOrder ==
  /\ [][ \A i \in Invs :
           /\ (InOrder(gen[i].pc) /\ gen'[i].pc # gen[i].pc) =>
                \/ /\ InOrder(gen'[i].pc)
                   /\ Position(gen'[i].pc) = Position(gen[i].pc) + 1
                \/ /\ gen'[i].pc = "done"
                   /\ gen[i].pc \in {"existing", "insert"}
           /\ (InOrder(gen[i].pc) /\ InOrder(gen'[i].pc)
                 /\ gen'[i].alertsToCreate # gen[i].alertsToCreate) =>
                gen[i].pc \in {"kpi", "overdue", "urgent", "problems"}
           /\ Ids(alerts) \ Ids(alerts') # {} =>
                gen[i].pc = "cleanup" /\ gen'[i].pc = "existing"
           /\ Ids(alerts') \ Ids(alerts) # {} =>
                gen[i].pc = "insert" /\ gen'[i].pc = "done" ]_vars
  /\ [](\A i \in Invs :
          (Authorized(i) /\ gen[i].pc = "done" /\ gen[i].failed = {"cleanup"}) =>
             /\ gen[i].response.success = "true"
             /\ gen[i].response.newAlertsCreated = gen[i].inserted)

C24_Witness ==
  \E i \in Invs :
     /\ Authorized(i) /\ gen[i].pc = "done"
     /\ gen[i].failed = {"cleanup"}
     /\ gen[i].response.success = "true"
     /\ gen[i].inserted = 3
     /\ \E r \in gen[i].readBefore : r \in alerts /\ r.created_at < Epoch - RetentionDays * DAY

\* The step delivers one insert event to the session's handler.
Delivery == channel # <<>> /\ channel' = Tail(channel) /\ Len(handled') = Len(handled) + 1

\* C25: every delivery of an insert event invalidates the unread-alert
\* query and the alert query, whether or not a notification is shown.
C25_RefreshOnEveryEvent ==
  [][ Delivery =>
        /\ "smart-alerts-unread" \in outcome'.invalidated
        /\ "smart-alerts" \in outcome'.invalidated ]_vars

C25_Witness ==
  /\ handled # <<>>
  /\ handled[Len(handled)].shown = <<>>
  /\ handled[Len(handled)].role = "admin"
  /\ channel = <<>>
  /\ outcome.invalidated = {"smart-alerts-unread", "smart-alerts"}
  /\ outcome.updates = 0

\* The step in which an authorized invocation returns the success summary
\* after all its reads succeeded.
CleanReturn(i) ==
  /\ gen[i].pc \in {"existing", "insert"}
  /\ gen'[i].pc = "done"
  /\ gen'[i].response.success = "true"
  /\ gen'[i].failed \cap {"kpi", "overdue", "urgent", "problems", "existing"} = {}

HasRow(rows, type, id) == \E r \in rows : r.type = type /\ r.related_id = id

C27_NoDuplicateCandidates ==
  \A i \in Invs :
     LET c == gen[i].alertsToCreate IN
     /\ \A j, m \in 1..Len(c) :
          (c[j].type = c[m].type /\ c[j].related_id = c[m].related_id) => j = m
     /\ \A k \in KpiIds :
          /\ \A t \in KpiTypes : Count(c, t, k) <= 1
          /\ ~(Count(c, "kpi_critical", k) > 0 /\ Count(c, "kpi_warning", k) > 0)
     /\ \A a \in ActionIds :
          Count(c, "action_overdue", a) <= 1 /\ Count(c, "action_urgent", a) <= 1
     /\ \A p \in ProblemIds :
          /\ Cardinality(OfProblem(c, p)) <= 1
          /\ (AfterProblems(i) /\ p \in ProblemsQuery(problems)) =>
               Cardinality(OfProblem(c, p)) = 1

C27_Witness ==
  \E i \in Invs :
     /\ Len(kpiValues) = 2 /\ kpiValues[1].kpi_id = "k1" /\ kpiValues[2].kpi_id = "k1"
     /\ kpiValues[2].status = "orange"
     /\ Count(gen[i].alertsToCreate, "kpi_critical", "k1") = 1
     /\ Count(gen[i].alertsToCreate, "kpi_trend", "k1") = 1
     /\ Len(gen[i].alertsToCreate) = 2

\* C28: an invocation whose read of the unread alerts failed goes on with
\* every candidate kept; if its insert succeeds it returns the success
\* summary with duplicatesSkipped = 0 and has inserted one unread row per
\* candidate, whether or not the store already held an unread row with the
\* same pair.
C28_DedupReadFailure ==
  [][ \A i \in Invs :
        LET c == gen[i].alertsToCreate IN
        /\ (gen[i].pc = "existing" /\ "existing" \in gen'[i].failed) =>
             IF Len(c) > 0
               THEN gen'[i].pc = "insert" /\ gen'[i].newAlerts = c
               ELSE gen'[i].pc = "done" /\ gen'[i].response.success = "true"
        /\ (gen[i].pc = "insert" /\ "existing" \in gen[i].failed
              /\ gen'[i].pc = "done" /\ "insert" \notin gen'[i].failed) =>
             /\ gen'[i].response.success = "true"
             /\ gen'[i].response.duplicatesSkipped = 0
             /\ gen'[i].response.newAlertsCreated = Len(c)
             /\ \A j \in 1..Len(c) :
                  HasRow(Unread(alerts' \ alerts), c[j].type, c[j].related_id) ]_vars

C28_Witness ==
  \E i \in Invs :
     /\ Authorized(i) /\ gen[i].pc = "done" /\ gen[i].failed = {"existing"}
     /\ gen[i].response.success = "true"
     /\ gen[i].response.duplicatesSkipped = 0
     /\ gen[i].inserted = 1
     /\ Cardinality({ r \in Unread(alerts) :
                        r.type = "kpi_critical" /\ r.related_id = "k1" }) = 2
     /\ \E r \in Unread(alerts) : r.id > 100

InSeq(seq, x) == \E j \in 1..Len(seq) : seq[j] = x

\* C29: when the deduplication read of an invocation succeeds, a candidate
\* is dropped exactly when the store holds an unread alert with its pair; a
\* candidate whose alerts are all read is kept, and the insert adds a new
\* unread row for it.
C29_ReadAlertsDoNotDeduplicate ==
  [][ \A i \in Invs :
        LET c == gen[i].alertsToCreate IN
        /\ (gen[i].pc = "existing" /\ gen'[i].pc # "existing"
              /\ "existing" \notin gen'[i].failed) =>
             \A j \in 1..Len(c) :
                /\ (gen'[i].pc = "insert" /\ InSeq(gen'[i].newAlerts, c[j]))
                     <=> ~HasRow(Unread(alerts), c[j].type, c[j].related_id)
        /\ (gen[i].pc = "insert" /\ gen'[i].pc = "done"
              /\ gen'[i].response.success = "true") =>
             \A j \in 1..Len(gen[i].newAlerts) :
                HasRow(Unread(alerts' \ alerts), gen[i].newAlerts[j].type,
                       gen[i].newAlerts[j].related_id) ]_vars

C29_Witness ==
  LET mine == { r \in alerts : r.id < 100 /\ r.type = "kpi_critical" /\ r.related_id = "k1" }
  IN /\ Cardinality({ r \in mine : r.is_read }) = 2
     /\ Cardinality({ r \in mine : ~r.is_read }) = 1
     /\ \A r \in alerts : r.id < 100
     /\ \E i \in Invs : gen[i].pc = "done" /\ gen[i].inserted = 1
                        /\ gen[i].response.duplicatesSkipped = 0

\* The toggle that the handler tests for a type, for the types it tests.
Toggle(type, settings) ==
  IF type = "kpi_critical" THEN settings.kpi_alerts
  ELSE IF type = "action_overdue" THEN settings.action_reminders
  ELSE IF type = "problem_critical" THEN settings.problem_escalation
  ELSE TRUE

\* C30: an insert event delivered before the stored settings are loaded is
\* handled with every toggle true and is shown to a session whose role is
\* not admin, whatever the stored settings; an event delivered after the
\* load is handled with the stored settings.
C30_SettingsBeforeLoad ==
  [][ Delivery =>
        LET h == handled'[Len(handled')]
            stored == IF session.userSettings = NoRow THEN DefaultSettings
                      ELSE session.userSettings
        IN IF ~session.loaded
             THEN /\ h.settings = [email_alerts |-> TRUE, action_reminders |-> TRUE,
                                   problem_escalation |-> TRUE, kpi_alerts |-> TRUE]
                  /\ session.role # "admin" => Len(h.shown) = 1
             ELSE /\ h.settings.kpi_alerts = stored.kpi_alerts
                  /\ h.settings.action_reminders = stored.action_reminders
                  /\ h.settings.problem_escalation = stored.problem_escalation
                  /\ ~Toggle(h.alert.type, stored) => h.shown = <<>> ]_vars

C30_Witness ==
  /\ Len(handled) = 2
  /\ session.heldRole = "operator" /\ session.loaded
  /\ session.userSettings # NoRow /\ ~session.userSettings.kpi_alerts
  /\ handled[1].alert.type = "kpi_critical" /\ handled[1].role = "operator"
  /\ handled[1].settings.kpi_alerts /\ Len(handled[1].shown) = 1
  /\ handled[2].alert.type = "kpi_critical"
  /\ ~handled[2].settings.kpi_alerts /\ handled[2].shown = <<>>

====
